---- MODULE Spec2Model ----
(***************************************************************************)
(* A model of the LoveAI dating application front end:                     *)
(*   - the AI matching engine (js/ai-matching.js),                         *)
(*   - the local IndexedDB store of likes and matches (DatingAppDB),       *)
(*   - the session handling (login, logout, start-up session restore),     *)
(*   - the sign-up form validation,                                        *)
(*   - the onboarding wizard.                                              *)
(* Each part has its own specification over the shared variables; the      *)
(* variables of the other parts stay at their initial values.              *)
(***************************************************************************)
EXTENDS Integers, Sequences, FiniteSets, TLC

VARIABLES
    \* ---- AI matching engine (AIMatchingEngine) ----
    apiKey,        \* this.apiKey: "null", "" or a key
    lsApiKey,      \* localStorage['openai_api_key']: "null" when absent
    profile1,      \* the two profiles handed to the engine
    profile2,
    aiCall,        \* the last finished engine call and what it returned
    \* ---- local store (DatingAppDB) ----
    likes,         \* the 'likes' object store, in key order
    matches,       \* the 'matches' object store, in key order
    lastQuery,     \* the last call that only reads the store, and its result
    \* ---- session (app.js globals, BackendAPI, localStorage, screens) ----
    currentUser,   \* "null", "user" (no profile loaded) or "userP" (with profile)
    lsUser,        \* localStorage['loveai_current_user'], same values
    lsToken,       \* localStorage holds auth_token
    lsUserId,      \* localStorage holds user_id
    token,         \* backendAPI.token is non-null
    currentUserId, \* backendAPI.currentUserId is non-null
    authActive,    \* #authScreen has class active
    mainActive,    \* #mainScreen has class active
    pcCheck,       \* DOMContentLoaded handler: "init", "await", "done"
    ckSaved,       \* savedUser, as checkExistingSession read it
    pcInit,        \* initApp: "init", "await", "done"
    pcLogin,       \* handleLogin: "idle", "await", "timer"
    pcMain,        \* showMainApp: "idle", "await"
    pcLogout,      \* handleLogout: "idle", "await"
    pcDiscover,    \* a getDiscoveryProfiles request is pending
    finished,      \* the async handler the last step completed, "none" otherwise
    respCheck,     \* the response checkExistingSession got to getMyProfile
    respInit,      \* the response initApp got to getMyProfile
    respLogout,    \* the response handleLogout got to logout()
    respDiscover,  \* the responses loadDiscoveryProfiles got so far
    \* ---- sign-up form (handleSignup) ----
    signupName,    \* the values of the form's fields
    signupEmail,
    signupPassword,
    signupAge,
    signupGender,
    pcSignup,      \* handleSignup: "idle", "await", "timer"
    signupError,   \* the message #signupError shows, "none" when hidden
    \* ---- onboarding wizard (onboarding.js) ----
    onboardingStep,    \* the step shown, 3 (interests) or 4 (preferences)
    selectedInterests, \* selectedInterests
    customInterests,   \* customInterests
    pills,             \* the .interest-pill buttons of step 3, in DOM order
    modalOpen,         \* #onboardingModal is in the document
    onboardingFiles,   \* the files chosen in #onboardingPhotos: their sizes in bytes
    pcOnboard,         \* completeOnboarding: "idle" or the request awaited
    photoIdx,          \* the loop index of the photo upload
    obCalls,           \* the backend methods the last completeOnboarding called
    obSent,            \* profileData.interests of the last updateProfile call
    statusMsg,         \* the text showStatus displayed last
    \* ---- WebSocket (BackendAPI.connectWebSocket) ----
    ws,                \* backendAPI.ws: 0 for null, else the socket's number
    sockets,           \* the state of every socket created so far
    wsTimers,          \* the sockets whose reconnect timer is pending
    logoutWs,          \* the socket connected when handleLogout started, else 0
    \* ---- discovery swipes (discovery.js) ----
    currentProfileIndex, \* currentProfileIndex
    interactions,        \* per profile of the batch, the interactions recorded
    swipeTasks,          \* the running swipe handlers and where they are
    \* ---- photo selection (handleOnboardingPhotos, handlePhotoUploads) ----
    photoCall,         \* the last finished photo collection and its result
    profilePhotos      \* the files chosen in #profilePhotos (edit profile)

aiVars == <<apiKey, lsApiKey, profile1, profile2, aiCall>>
storeVars == <<likes, matches, lastQuery>>
sessVars ==
    <<currentUser, lsUser, lsToken, lsUserId, token, currentUserId, authActive,
      mainActive, pcCheck, ckSaved, pcInit, pcLogin, pcMain, pcLogout,
      pcDiscover, finished, respCheck, respInit, respLogout,
      respDiscover>>
signupVars ==
    <<signupName, signupEmail, signupPassword, signupAge, signupGender, pcSignup,
      signupError>>
onbVars ==
    <<onboardingStep, selectedInterests, customInterests, pills, modalOpen,
      onboardingFiles, pcOnboard, photoIdx, obCalls, obSent, statusMsg>>
uiVars == <<signupVars, onbVars>>

wsVars == <<ws, sockets, wsTimers, logoutWs>>
swipeVars == <<currentProfileIndex, interactions, swipeTasks>>
photoVars == <<photoCall, profilePhotos>>

vars == <<aiVars, storeVars, sessVars, uiVars, wsVars, swipeVars, photoVars>>

(***************************************************************************)
(* JavaScript values.                                                      *)
(***************************************************************************)

\* A JavaScript number: an integer or NaN.
Num(n) == [nan |-> FALSE, v |-> n]
NaN == [nan |-> TRUE, v |-> 0]

\* An optional field of an object: absent (undefined) or holding a value.
Absent(dflt) == [has |-> FALSE, val |-> dflt]
Some(x) == [has |-> TRUE, val |-> x]

\* Math.max / Math.min on two numbers: NaN when either is NaN.
MathMax(a, b) ==
    IF a.nan \/ b.nan THEN NaN ELSE IF a.v >= b.v THEN a ELSE b

MathMin(a, b) ==
    IF a.nan \/ b.nan THEN NaN ELSE IF a.v <= b.v THEN a ELSE b

\* The values the "score" field of the parsed LLM reply can hold.
ScoreValues ==
    {[t |-> "undefined", v |-> 0], [t |-> "null", v |-> 0],
     [t |-> "text", v |-> 0], [t |-> "true", v |-> 0]}
    \cup {[t |-> "number", v |-> n] : n \in {-20, 0, 57, 100, 140}}
    \cup {[t |-> "numeric_text", v |-> n] : n \in {85, 250}}

\* ToNumber, as Math.max applies it to its arguments.
ToNumber(x) ==
    CASE x.t = "undefined"    -> NaN
      [] x.t = "null"         -> Num(0)
      [] x.t = "text"         -> NaN
      [] x.t = "true"         -> Num(1)
      [] x.t = "number"       -> Num(x.v)
      [] x.t = "numeric_text" -> Num(x.v)

\* A key test that only looks for null (apiKey !== null).
Truthy_NullOnly(k) == k # "null"

\* Truthiness of a stored key: null and the empty string are falsy.
Truthy(k) == k \notin {"null", ""}

(***************************************************************************)
(* Strings are sequences of one-character strings.                         *)
(***************************************************************************)
Str_NY   == <<"N", "Y">>
Str_b_c  == <<"b", ",", " ", "c">>
Str_d_C  == <<"d", ",", "C">>
Str_d    == <<"d">>
Str_b    == <<"b">>
Str_sny_c == <<"s", "n", "y", ",", "c">>

ToLowerChar(c) ==
    CASE c = "N" -> "n" [] c = "Y" -> "y" [] c = "C" -> "c" [] OTHER -> c

ToLowerCase(s) == [i \in 1..Len(s) |-> ToLowerChar(s[i])]

\* s.includes(t)
Includes(s, t) ==
    \E i \in 0..(Len(s) - Len(t)) : \A j \in 1..Len(t) : s[i + j] = t[j]

\* Positions of the commas of s.
Commas(s) == {i \in 1..Len(s) : s[i] = ","}

Min(S) == CHOOSE x \in S : \A y \in S : x <= y

\* s.split(',')[1]: the text between the first comma and the next one (or
\* the end); undefined when s has no comma.
SplitSecond(s) ==
    IF Commas(s) = {} THEN Absent(<<>>)
    ELSE LET c1 == Min(Commas(s))
             later == {i \in Commas(s) : i > c1}
             stop == IF later = {} THEN Len(s) + 1 ELSE Min(later)
         IN Some(SubSeq(s, c1 + 1, stop - 1))

\* s.trim()
RECURSIVE Trim(_)
Trim(s) ==
    IF s = <<>> THEN s
    ELSE IF Head(s) = " " THEN Trim(Tail(s))
    ELSE IF s[Len(s)] = " " THEN Trim(SubSeq(s, 1, Len(s) - 1))
    ELSE s

\* x?.trim()
OptTrim(x) == IF x.has THEN Some(Trim(x.val)) ELSE x

\* Lower-casing of the interest names of the model.
InterestLower(i) ==
    CASE i = "Art" -> "art" [] i = "ART" -> "art" [] i = "Music" -> "music"
      [] i = "Yoga" -> "yoga" [] i = "Golf" -> "golf" [] i = "Chess" -> "chess"
      [] OTHER -> i

(***************************************************************************)
(* Profiles.                                                               *)
(***************************************************************************)
Bio(text, words) == [text |-> text, words |-> words]

Profile(age, location, interests, bio) ==
    [age |-> age, location |-> location, interests |-> interests, bio |-> bio]

\* A bio is modelled by the keywords of the engine's list it contains
\* (after lower-casing); text is whether the bio is a non-empty string.
BioKeywords ==
    {"travel", "music", "food", "fitness", "art", "reading", "movies",
     "hiking", "cooking"}

NoBio == Bio(FALSE, {})
ShortBio == Bio(TRUE, {"travel"})
LongBio == Bio(TRUE, {"travel", "music", "food", "fitness", "art", "hiking"})

ListA == <<"Art", "Yoga">>
ListB == <<"art", "Music", "yoga", "Golf", "Chess">>
ListC == <<"ART", "music", "Yoga", "Golf", "Chess">>
\* A list that names one interest twice, as the onboarding wizard can send.
ListD == <<"Art", "art", "Yoga">>

\* The profiles of the model: full and sparse ones, near and far in age,
\* place and interests, one without an age.
Profiles ==
    {Profile(Num(22), Some(Str_NY), Some(ListA), ShortBio),
     Profile(Num(27), Some(Str_b_c), Some(ListB), LongBio),
     Profile(Num(40), Some(Str_d), Some(ListC), LongBio),
     Profile(NaN, Absent(<<>>), Absent(<<>>), NoBio),
     Profile(Num(35), Some(Str_d_C), Some(<<>>), ShortBio),
     Profile(Num(24), Some(Str_NY), Some(ListB), LongBio),
     Profile(Num(22), Some(Str_NY), Some(ListC), LongBio),
     Profile(Num(30), Some(Str_b), Some(ListD), ShortBio)}

(***************************************************************************)
(* calculateSimpleCompatibility                                            *)
(***************************************************************************)
BaseScore == 50
JitterMax == 5
InterestCap == 20
BioCap == 10

\* Math.abs(profile1.age - profile2.age)
AgeDiff(p1, p2) ==
    IF p1.age.nan \/ p2.age.nan THEN NaN
    ELSE Num(IF p1.age.v >= p2.age.v THEN p1.age.v - p2.age.v
             ELSE p2.age.v - p1.age.v)

\* A comparison with NaN is false, so a NaN difference takes the last branch.
AgeBonus(p1, p2) ==
    LET d == AgeDiff(p1, p2) IN
    IF ~d.nan /\ d.v <= 5 THEN 15
    ELSE IF ~d.nan /\ d.v <= 10 THEN 10
    ELSE IF ~d.nan /\ d.v <= 15 THEN 5
    ELSE -10

LocTruthy(l) == l.has /\ l.val # <<>>

LocationBonus(p1, p2) ==
    IF LocTruthy(p1.location) /\ LocTruthy(p2.location)
    THEN LET loc1 == ToLowerCase(p1.location.val)
             loc2 == ToLowerCase(p2.location.val)
         IN IF Includes(loc1, <<"n", "y">>) /\ Includes(loc2, <<"n", "y">>)
            THEN 15
            ELSE IF OptTrim(SplitSecond(loc1)) = OptTrim(SplitSecond(loc2))
            THEN 10
            ELSE 0
    ELSE 0

\* profile1.interests.filter(i => profile2.interests.some(j => ...)).length
CommonInterests(l1, l2) ==
    Cardinality({k \in 1..Len(l1) :
        \E m \in 1..Len(l2) : InterestLower(l2[m]) = InterestLower(l1[k])})

InterestBonus(p1, p2) ==
    IF p1.interests.has /\ p2.interests.has
       /\ Len(p1.interests.val) > 0 /\ Len(p2.interests.val) > 0
    THEN LET n == CommonInterests(p1.interests.val, p2.interests.val) * 5
         IN IF n <= InterestCap THEN n ELSE InterestCap
    ELSE 0

BioBonus(p1, p2) ==
    IF p1.bio.text /\ p2.bio.text
    THEN LET n == Cardinality({k \in BioKeywords :
                      k \in p1.bio.words /\ k \in p2.bio.words}) * 2
         IN IF n <= BioCap THEN n ELSE BioCap
    ELSE 0

\* The score before the random variation.
RawScore(p1, p2) ==
    BaseScore + AgeBonus(p1, p2) + LocationBonus(p1, p2)
        + InterestBonus(p1, p2) + BioBonus(p1, p2)

\* Math.min(100, Math.max(0, x))
Clamp(x) == MathMin(Num(100), MathMax(Num(0), x))

\* Math.round(score + Math.random() * 10 - 5) takes every integer from
\* score - 5 to score + 5; j is that rounded variation.
calculateSimpleCompatibility(p1, p2, j) == Clamp(Num(RawScore(p1, p2) + j))

Jitters == (0 - JitterMax)..JitterMax

SimpleScores(p1, p2) == {calculateSimpleCompatibility(p1, p2, j) : j \in Jitters}

(***************************************************************************)
(* The LLM call and the engine's operations.                               *)
(***************************************************************************)
\* What the request to the LLM ends in.
LlmFailures ==
    {"fetch_rejects", "http_not_ok", "body_not_json", "content_not_text",
     "no_json_object", "invalid_json"}

LlmOutcomes ==
    {[kind |-> f, score |-> [t |-> "undefined", v |-> 0]] : f \in LlmFailures}
    \cup {[kind |-> "json", score |-> s] : s \in ScoreValues}

NoCall ==
    [op |-> "none", memBefore |-> "null", lsBefore |-> "null", fetched |-> FALSE,
     source |-> "none", llm |-> "none", score |-> Num(0), rejected |-> FALSE]

\* A finished call of operation op, started with the keys mem and ls.
Call(op, mem, ls, fetched, source, llm, score, rejected) ==
    [op |-> op, memBefore |-> mem, lsBefore |-> ls, fetched |-> fetched,
     source |-> source, llm |-> llm, score |-> score, rejected |-> rejected]

\* getApiKey: an unset in-memory key is filled in from localStorage.
getApiKey(mem, ls) == IF Truthy(mem) THEN mem ELSE ls

hasApiKey(mem, ls) == Truthy(getApiKey(mem, ls))

\* callChatGPT sends the request only with a key; without one it throws
\* before fetch.
callChatGPTFetches(mem, ls) == Truthy(getApiKey(mem, ls))

\* Whether the try block of calculateCompatibility throws: callChatGPT
\* throws (no key, fetch rejected, status not OK, unreadable body), the
\* content is no text, holds no {...}, or JSON.parse throws.
CompatTryThrows(mem, ls, o) == ~callChatGPTFetches(mem, ls) \/ o.kind # "json"

\* The score returned from a parsed reply.
LlmScore(s) == Clamp(ToNumber(s))

\* A catch block that throws the error on instead of falling back.
CompatCatch_Rethrows(mem, ls, o, j) ==
    Call("calculateCompatibility", mem, ls, callChatGPTFetches(mem, ls), "none",
         o.kind, NaN, TRUE)

\* The catch block of calculateCompatibility: the heuristic's result.
CompatCatch(mem, ls, o, j) ==
    Call("calculateCompatibility", mem, ls, callChatGPTFetches(mem, ls), "simple",
         o.kind, calculateSimpleCompatibility(profile1, profile2, j), FALSE)

\* The result built from the parsed reply.
CompatParsed(mem, ls, o) ==
    Call("calculateCompatibility", mem, ls, TRUE, "llm", o.kind,
         LlmScore(o.score), FALSE)

setApiKey(k) ==
    /\ apiKey' = k
    /\ lsApiKey' = k
    /\ UNCHANGED <<profile1, profile2, aiCall, storeVars, sessVars, uiVars, wsVars, swipeVars,
                 photoVars>>

calculateCompatibility ==
    /\ apiKey' = getApiKey(apiKey, lsApiKey)
    /\ IF ~hasApiKey(apiKey, lsApiKey)
       THEN \E j \in Jitters :
              aiCall' = Call("calculateCompatibility", apiKey, lsApiKey, FALSE,
                             "simple", "none",
                             calculateSimpleCompatibility(profile1, profile2, j), FALSE)
       ELSE \E o \in LlmOutcomes :
              IF CompatTryThrows(apiKey, lsApiKey, o)
              THEN \E j \in Jitters : aiCall' = CompatCatch(apiKey, lsApiKey, o, j)
              ELSE aiCall' = CompatParsed(apiKey, lsApiKey, o)
    /\ UNCHANGED <<lsApiKey, profile1, profile2, storeVars, sessVars, uiVars, wsVars, swipeVars,
                 photoVars>>

\* generateConversationStarters, generateBioSuggestions, analyzeUserPatterns:
\* the local result without a key or on any failure, the parsed array
\* otherwise.
ListOps == {"generateConversationStarters", "generateBioSuggestions", "analyzeUserPatterns"}

ListOutcomes == {"fetch_rejects", "http_not_ok", "no_json_array", "invalid_json", "json"}

\* Whether the reply is used: the request was sent and a JSON array parsed.
ListParsed(mem, ls, o) == callChatGPTFetches(mem, ls) /\ o = "json"

generateList(op) ==
    /\ apiKey' = getApiKey(apiKey, lsApiKey)
    /\ IF ~hasApiKey(apiKey, lsApiKey)
       THEN aiCall' = Call(op, apiKey, lsApiKey, FALSE, "generic", "none", Num(0), FALSE)
       ELSE \E o \in ListOutcomes :
              aiCall' = Call(op, apiKey, lsApiKey, callChatGPTFetches(apiKey, lsApiKey),
                             IF ListParsed(apiKey, lsApiKey, o) THEN "llm" ELSE "generic",
                             o, Num(0), FALSE)
    /\ UNCHANGED <<lsApiKey, profile1, profile2, storeVars, sessVars, uiVars, wsVars, swipeVars,
                 photoVars>>

\* The engine before any call, with fixed profiles.
IdleAI ==
    /\ apiKey = "null"
    /\ lsApiKey = "null"
    /\ profile1 = Profile(NaN, Absent(<<>>), Absent(<<>>), NoBio)
    /\ profile2 = Profile(NaN, Absent(<<>>), Absent(<<>>), NoBio)
    /\ aiCall = NoCall

\* The empty store.
IdleStore ==
    /\ likes = <<>>
    /\ matches = <<>>
    /\ lastQuery = [op |-> "none", a |-> 0, b |-> 0, truthy |-> FALSE]

\* A freshly loaded page with nothing stored, before any handler ran.
IdleSession ==
    /\ currentUser = "null"
    /\ lsUser = "null"
    /\ lsToken = FALSE
    /\ lsUserId = FALSE
    /\ token = FALSE
    /\ currentUserId = FALSE
    /\ authActive = TRUE
    /\ mainActive = FALSE
    /\ pcCheck = "init"
    /\ ckSaved = "null"
    /\ pcInit = "init"
    /\ pcLogin = "idle"
    /\ pcMain = "idle"
    /\ pcLogout = "idle"
    /\ pcDiscover = FALSE
    /\ finished = "none"
    /\ respCheck = "none"
    /\ respInit = "none"
    /\ respLogout = "none"
    /\ respDiscover = {}

NoPhotoCall == [op |-> "none", files |-> <<>>, photos |-> <<>>, rejected |-> FALSE]

\* No socket, no batch of discovery profiles, no photos collected.
IdleRest ==
    /\ ws = 0
    /\ sockets = <<>>
    /\ wsTimers = {}
    /\ logoutWs = 0
    /\ currentProfileIndex = 0
    /\ interactions = <<>>
    /\ swipeTasks = <<>>
    /\ photoCall = NoPhotoCall
    /\ profilePhotos = <<>>

\* No sign-up and no onboarding in progress.
IdleUI ==
    /\ signupName = <<>>
    /\ signupEmail = <<>>
    /\ signupPassword = <<>>
    /\ signupAge = <<>>
    /\ signupGender = <<>>
    /\ pcSignup = "idle"
    /\ signupError = "none"
    /\ onboardingStep = 0
    /\ selectedInterests = <<>>
    /\ customInterests = <<>>
    /\ pills = <<>>
    /\ modalOpen = FALSE
    /\ onboardingFiles = <<>>
    /\ pcOnboard = "idle"
    /\ photoIdx = 0
    /\ obCalls = {}
    /\ obSent = <<>>
    /\ statusMsg = "none"

InitAI ==
    /\ apiKey = "null"
    /\ lsApiKey \in {"null", "sk"}
    /\ profile1 \in Profiles
    /\ profile2 \in Profiles
    /\ aiCall = NoCall
    /\ IdleStore
    /\ IdleRest
    /\ IdleSession
    /\ IdleUI

NextAI ==
    \/ \E k \in {"", "sk"} : setApiKey(k)
    \/ calculateCompatibility
    \/ \E op \in ListOps : generateList(op)

Spec == InitAI /\ [][NextAI]_vars

(***************************************************************************)
(* The local store: DatingAppDB's likes and matches.                       *)
(***************************************************************************)
NumUsers == 2
MaxLikes == 2
MaxMatches == 1

Users == 1..NumUsers

LikeTypes == {"like", "superlike", "pass"}

NoQuery == [op |-> "none", a |-> 0, b |-> 0, truthy |-> FALSE]

Query(op, a, b, truthy) == [op |-> op, a |-> a, b |-> b, truthy |-> truthy]

\* likes.find(pred): the first record that satisfies it, or undefined.
Find(store, Pred(_)) ==
    LET hits == {i \in 1..Len(store) : Pred(store[i])}
    IN IF hits = {} THEN Absent([fromUserId |-> 0, toUserId |-> 0, type |-> ""])
       ELSE Some(store[Min(hits)])

\* A mutual-like test that forgets the type of the records.
checkMutualLike_AnyType(store, user1Id, user2Id) ==
    LET like1 == Find(store, LAMBDA l : l.fromUserId = user1Id /\ l.toUserId = user2Id)
        like2 == Find(store, LAMBDA l : l.fromUserId = user2Id /\ l.toUserId = user1Id)
    IN IF like1.has THEN like2 ELSE like1

\* checkMutualLike resolves like1 && like2: like2 when like1 was found,
\* undefined otherwise.
checkMutualLike(store, user1Id, user2Id) ==
    LET like1 == Find(store, LAMBDA l : l.fromUserId = user1Id /\ l.toUserId = user2Id
                                          /\ l.type = "like")
        like2 == Find(store, LAMBDA l : l.fromUserId = user2Id /\ l.toUserId = user1Id
                                          /\ l.type = "like")
    IN IF like1.has THEN like2 ELSE like1

\* createLike adds one record to the likes store, whatever it holds.
createLike(fromUserId, toUserId, type) ==
    /\ Len(likes) < MaxLikes
    /\ likes' = Append(likes, [fromUserId |-> fromUserId, toUserId |-> toUserId,
                               type |-> type])
    /\ lastQuery' = NoQuery
    /\ UNCHANGED <<matches, aiVars, sessVars, uiVars, wsVars, swipeVars,
                 photoVars>>

\* createMatch adds one record to the matches store, whatever the likes
\* store holds.
createMatch(user1Id, user2Id) ==
    /\ Len(matches) < MaxMatches
    /\ matches' = Append(matches, [user1Id |-> user1Id, user2Id |-> user2Id])
    /\ lastQuery' = NoQuery
    /\ UNCHANGED <<likes, aiVars, sessVars, uiVars, wsVars, swipeVars,
                 photoVars>>

callCheckMutualLike(a, b) ==
    /\ lastQuery' = Query("checkMutualLike", a, b, checkMutualLike(likes, a, b).has)
    /\ UNCHANGED <<likes, matches, aiVars, sessVars, uiVars, wsVars, swipeVars,
                 photoVars>>

\* addInteraction logs and returns a record; it stores nothing.
addInteraction(userId, profileId) ==
    /\ lastQuery' = Query("addInteraction", userId, profileId, TRUE)
    /\ UNCHANGED <<likes, matches, aiVars, sessVars, uiVars, wsVars, swipeVars,
                 photoVars>>

\* DatingAppDB.checkAndCelebrateMatch returns null; it reads and stores
\* nothing.
checkAndCelebrateMatch(userId, profileId) ==
    /\ lastQuery' = Query("checkAndCelebrateMatch", userId, profileId, FALSE)
    /\ UNCHANGED <<likes, matches, aiVars, sessVars, uiVars, wsVars, swipeVars,
                 photoVars>>

\* The local branch of handleSwipeAction for a like: addInteraction, then
\* the global checkAndCelebrateMatch(currentUser.id, profile.id), whose
\* argument has no is_match field, so that it returns false.
swipeLikeLocal(userId, profileId) ==
    /\ lastQuery' = Query("handleSwipeAction", userId, profileId, FALSE)
    /\ UNCHANGED <<likes, matches, aiVars, sessVars, uiVars, wsVars, swipeVars,
                 photoVars>>

InitStore ==
    /\ IdleAI
    /\ IdleStore
    /\ IdleRest
    /\ IdleSession
    /\ IdleUI

NextStore ==
    \/ \E a, b \in Users, t \in LikeTypes : createLike(a, b, t)
    \/ \E a, b \in Users : createMatch(a, b)
    \/ \E a, b \in Users : callCheckMutualLike(a, b)
    \/ \E a, b \in Users : addInteraction(a, b)
    \/ \E a, b \in Users : checkAndCelebrateMatch(a, b)
    \/ \E a, b \in Users : swipeLikeLocal(a, b)

SpecStore == InitStore /\ [][NextStore]_vars

\* The likes store alone: createLike and checkMutualLike.
NextLikes ==
    \/ \E a, b \in Users, t \in LikeTypes : createLike(a, b, t)
    \/ \E a, b \in Users : callCheckMutualLike(a, b)

SpecLikes == InitStore /\ [][NextLikes]_vars

(***************************************************************************)
(* The session: start-up session restore, login, showMainApp, logout.      *)
(* An async handler is one step up to each await of a network request and  *)
(* one step for what follows the response.                                 *)
(***************************************************************************)
\* What a request to the backend ends in: a 2xx reply, a 401 reply, or any
\* other failure (network error, other status).
Responses == {"ok", "unauthorized", "error"}

sessAwaitVars == <<pcCheck, ckSaved, pcInit, pcLogin, pcMain, pcLogout>>

\* showLoginScreen, and the two classList calls of the handlers.
ShowLogin == authActive' = TRUE /\ mainActive' = FALSE

ShowMain == authActive' = FALSE /\ mainActive' = TRUE

\* localStorage.removeItem of the three session keys.
ClearStoredSession == lsUser' = "null" /\ lsToken' = FALSE /\ lsUserId' = FALSE

\* BackendAPI.isLoggedIn
isLoggedIn == token /\ currentUserId

\* showScreen('discover') calls loadDiscoveryProfiles, which sends
\* getDiscoveryProfiles when isLoggedIn().
ShowDiscover == pcDiscover' = (pcDiscover \/ isLoggedIn)

\* After showMainApp's profile step: startOnboarding for a profile that has
\* not completed onboarding, showScreen('discover') otherwise.
OnboardingOrDiscover == \/ UNCHANGED pcDiscover
                        \/ ShowDiscover

\* The catch block of checkExistingSession and the handler's !hasSession
\* branch: the stored session is removed and the auth screen shown;
\* currentUser is left as it is.
CheckSessionFailed ==
    /\ ClearStoredSession
    /\ ShowLogin
    /\ UNCHANGED <<currentUser, pcDiscover>>

\* The DOMContentLoaded handler up to the await in checkExistingSession.
DOMContentLoaded ==
    /\ pcCheck = "init"
    /\ IF lsUser # "null" /\ lsToken
       THEN /\ pcCheck' = "await"
            /\ ckSaved' = lsUser
            /\ finished' = "none"
            /\ UNCHANGED <<authActive, mainActive>>
       ELSE /\ pcCheck' = "done"
            /\ ShowLogin
            /\ finished' = "checkExistingSession"
            /\ UNCHANGED ckSaved
    /\ UNCHANGED <<currentUser, lsUser, lsToken, lsUserId, token, currentUserId,
                   pcInit, pcLogin, pcMain, pcLogout, pcDiscover, respCheck, respInit, respLogout, respDiscover>>
    /\ UNCHANGED <<aiVars, storeVars, wsVars, swipeVars, photoVars, uiVars>>

\* checkExistingSession after getMyProfile, and the rest of the handler.
checkSessionResponse(r) ==
    /\ pcCheck = "await"
    /\ pcCheck' = "done"
    /\ respCheck' = r
    /\ finished' = "checkExistingSession"
    /\ IF r = "ok"
       THEN /\ currentUser' = "userP"
            /\ ShowMain
            /\ OnboardingOrDiscover
            /\ UNCHANGED <<lsUser, lsToken, lsUserId>>
       ELSE CheckSessionFailed
    /\ UNCHANGED <<token, currentUserId, ckSaved, pcInit, pcLogin, pcMain, pcLogout,
                   respInit, respLogout, respDiscover>>
    /\ UNCHANGED <<aiVars, storeVars, wsVars, swipeVars, photoVars, uiVars>>

\* The catch block of initApp's session check.
InitAppFailed ==
    /\ currentUser' = "null"
    /\ ClearStoredSession
    /\ ShowLogin
    /\ UNCHANGED pcDiscover

\* initApp (the load handler, which follows DOMContentLoaded) up to its
\* await, or to its end when it does not fetch.
load ==
    /\ pcInit = "init"
    /\ pcCheck # "init"
    /\ IF lsUser # "null" /\ lsToken
       THEN /\ currentUser' = lsUser
            /\ IF lsUser = "user"
               THEN /\ pcInit' = "await"
                    /\ finished' = "none"
                    /\ UNCHANGED <<authActive, mainActive, pcDiscover>>
               ELSE /\ pcInit' = "done"
                    /\ finished' = "initApp"
                    /\ ShowMain
                    /\ ShowDiscover
       ELSE /\ pcInit' = "done"
            /\ finished' = "initApp"
            /\ ShowLogin
            /\ UNCHANGED <<currentUser, pcDiscover>>
    /\ UNCHANGED <<lsUser, lsToken, lsUserId, token, currentUserId, pcCheck, ckSaved,
                   pcLogin, pcMain, pcLogout, respCheck, respInit, respLogout, respDiscover>>
    /\ UNCHANGED <<aiVars, storeVars, wsVars, swipeVars, photoVars, uiVars>>

\* initApp after getMyProfile. currentUser.profile = profile throws when
\* currentUser is null by then, which the same catch block handles.
initAppResponse(r) ==
    /\ pcInit = "await"
    /\ pcInit' = "done"
    /\ respInit' = r
    /\ finished' = "initApp"
    /\ IF r = "ok" /\ currentUser # "null"
       THEN /\ currentUser' = "userP"
            /\ lsUser' = "userP"
            /\ ShowMain
            /\ ShowDiscover
            /\ UNCHANGED <<lsToken, lsUserId>>
       ELSE InitAppFailed
    /\ UNCHANGED <<token, currentUserId, pcCheck, ckSaved, pcLogin, pcMain, pcLogout,
                   respCheck, respLogout, respDiscover>>
    /\ UNCHANGED <<aiVars, storeVars, wsVars, swipeVars, photoVars, uiVars>>

\* The reply to getDiscoveryProfiles: apiCall removes the stored token
\* and user id on a 401 and leaves the in-memory ones.
discoverResponse(r) ==
    /\ pcDiscover
    /\ pcDiscover' = FALSE
    /\ finished' = "loadDiscoveryProfiles"
    /\ respDiscover' = respDiscover \cup {r}
    /\ IF r = "unauthorized"
       THEN lsToken' = FALSE /\ lsUserId' = FALSE
       ELSE UNCHANGED <<lsToken, lsUserId>>
    /\ UNCHANGED <<currentUser, lsUser, token, currentUserId, authActive, mainActive,
                   respCheck, respInit, respLogout>>
    /\ UNCHANGED sessAwaitVars
    /\ UNCHANGED <<aiVars, storeVars, wsVars, swipeVars, photoVars, uiVars>>

\* handleLogin with both fields filled in, up to the await of login().
handleLogin ==
    /\ pcLogin = "idle"
    /\ pcLogin' = "await"
    /\ finished' = "none"
    /\ UNCHANGED <<currentUser, lsUser, lsToken, lsUserId, token, currentUserId,
                   authActive, mainActive, pcCheck, ckSaved, pcInit, pcMain, pcLogout,
                   pcDiscover, respCheck, respInit, respLogout, respDiscover>>
    /\ UNCHANGED <<aiVars, storeVars, wsVars, swipeVars, photoVars, uiVars>>

\* BackendAPI.login stores the token and the user id; handleLogin then sets
\* currentUser (without a profile) and starts the timer for showMainApp.
loginResponse(r) ==
    /\ pcLogin = "await"
    /\ finished' = "handleLogin"
    /\ IF r = "ok"
       THEN /\ token' = TRUE
            /\ currentUserId' = TRUE
            /\ lsToken' = TRUE
            /\ lsUserId' = TRUE
            /\ currentUser' = "user"
            /\ lsUser' = "user"
            /\ pcLogin' = "timer"
       ELSE /\ pcLogin' = "idle"
            /\ UNCHANGED <<token, currentUserId, lsToken, lsUserId, currentUser, lsUser>>
    /\ UNCHANGED <<authActive, mainActive, pcCheck, ckSaved, pcInit, pcMain, pcLogout,
                   pcDiscover, respCheck, respInit, respLogout, respDiscover>>
    /\ UNCHANGED <<aiVars, storeVars, wsVars, swipeVars, photoVars, uiVars>>

\* The catch block of showMainApp: the stored session is removed, the
\* in-memory token stays.
MainAppFailed ==
    /\ currentUser' = "null"
    /\ ClearStoredSession
    /\ ShowLogin
    /\ UNCHANGED pcDiscover

\* showMainApp up to its await, or to its end when it does not fetch.
\* One showMainApp runs at a time.
StartShowMainApp ==
    /\ pcMain = "idle"
    /\ IF currentUser = "user"
       THEN IF token
            THEN /\ pcMain' = "await"
                 /\ finished' = "none"
                 /\ ShowMain
                 /\ UNCHANGED <<currentUser, lsUser, lsToken, lsUserId, pcDiscover>>
            ELSE /\ pcMain' = "idle"
                 /\ finished' = "showMainApp"
                 /\ MainAppFailed
       ELSE /\ pcMain' = "idle"
            /\ finished' = "showMainApp"
            /\ ShowMain
            /\ OnboardingOrDiscover
            /\ UNCHANGED <<currentUser, lsUser, lsToken, lsUserId>>

\* The timer of handleLogin fires.
loginTimer ==
    /\ pcLogin = "timer"
    /\ pcLogin' = "idle"
    /\ StartShowMainApp
    /\ UNCHANGED <<token, currentUserId, pcCheck, ckSaved, pcInit, pcLogout,
                   respCheck, respInit, respLogout, respDiscover>>
    /\ UNCHANGED <<aiVars, storeVars, wsVars, swipeVars, photoVars, uiVars>>

\* showMainApp after getMyProfile.
mainAppResponse(r) ==
    /\ pcMain = "await"
    /\ pcMain' = "idle"
    /\ finished' = "showMainApp"
    /\ IF r = "ok" /\ currentUser # "null"
       THEN /\ currentUser' = "userP"
            /\ lsUser' = "userP"
            /\ OnboardingOrDiscover
            /\ UNCHANGED <<lsToken, lsUserId, authActive, mainActive>>
       ELSE MainAppFailed
    /\ UNCHANGED <<token, currentUserId, pcCheck, ckSaved, pcInit, pcLogin, pcLogout,
                   respCheck, respInit, respLogout, respDiscover>>
    /\ UNCHANGED <<aiVars, storeVars, wsVars, swipeVars, photoVars, uiVars>>

\* handleLogout up to the await of backendAPI.logout().
handleLogout ==
    /\ pcLogout = "idle"
    /\ pcLogout' = "await"
    /\ finished' = "none"
    /\ UNCHANGED <<currentUser, lsUser, lsToken, lsUserId, token, currentUserId,
                   authActive, mainActive, pcCheck, ckSaved, pcInit, pcLogin, pcMain,
                   pcDiscover, respCheck, respInit, respLogout, respDiscover>>
    /\ logoutWs' = IF ws # 0 /\ sockets[ws] = "open" THEN ws ELSE 0
    /\ UNCHANGED <<ws, sockets, wsTimers>>
    /\ UNCHANGED <<aiVars, storeVars, swipeVars, photoVars, uiVars>>

\* The finally block of BackendAPI.logout.
LogoutFinally ==
    /\ token' = FALSE
    /\ currentUserId' = FALSE
    /\ lsToken' = FALSE
    /\ lsUserId' = FALSE

\* BackendAPI.disconnectWebSocket: close() is called on the socket, whose
\* close event fires later, and ws is set to null.
disconnectWebSocket ==
    IF ws # 0
    THEN /\ sockets' = [sockets EXCEPT ![ws] = IF @ = "open" THEN "closing" ELSE @]
         /\ ws' = 0
    ELSE UNCHANGED <<ws, sockets>>

\* handleLogout after logout() resolved.
LogoutTry ==
    /\ disconnectWebSocket
    /\ currentUser' = "null"
    /\ lsUser' = "null"
    /\ ShowLogin

\* A failure path that leaves the screens as they are.
LogoutCatch_StaysOnMain ==
    /\ currentUser' = "null"
    /\ lsUser' = "null"
    /\ UNCHANGED <<authActive, mainActive>>
    /\ UNCHANGED <<ws, sockets>>

\* handleLogout's catch block, after logout() rejected: the socket is not
\* touched.
LogoutCatch ==
    /\ currentUser' = "null"
    /\ lsUser' = "null"
    /\ ShowLogin
    /\ UNCHANGED <<ws, sockets>>

logoutResponse(r) ==
    /\ pcLogout = "await"
    /\ pcLogout' = "idle"
    /\ finished' = "handleLogout"
    /\ respLogout' = r
    /\ LogoutFinally
    /\ IF r = "ok" THEN LogoutTry ELSE LogoutCatch
    /\ UNCHANGED <<pcCheck, ckSaved, pcInit, pcLogin, pcMain, pcDiscover, respCheck,
                   respInit, respDiscover>>
    /\ UNCHANGED <<wsTimers, logoutWs>>
    /\ UNCHANGED <<aiVars, storeVars, swipeVars, photoVars, uiVars>>

\* A page load: localStorage holds what an earlier visit left, BackendAPI's
\* constructor has read the token and the user id from it, and the screens
\* are as the page's markup has them.
InitSession ==
    /\ currentUser = "null"
    /\ lsUser \in {"null", "user", "userP"}
    /\ lsToken \in BOOLEAN
    /\ lsUserId = lsToken
    /\ token = lsToken
    /\ currentUserId = lsUserId
    /\ authActive \in BOOLEAN
    /\ mainActive \in BOOLEAN
    /\ pcCheck = "init"
    /\ ckSaved = "null"
    /\ pcInit = "init"
    /\ pcLogin = "idle"
    /\ pcMain = "idle"
    /\ pcLogout = "idle"
    /\ pcDiscover = FALSE
    /\ finished = "none"
    /\ respCheck = "none"
    /\ respInit = "none"
    /\ respLogout = "none"
    /\ respDiscover = {}
    /\ IdleAI
    /\ IdleStore
    /\ IdleRest
    /\ IdleUI

\* The two start-up handlers and the requests they send.
NextStartup ==
    \/ DOMContentLoaded
    \/ \E r \in Responses : checkSessionResponse(r)
    \/ load
    \/ \E r \in Responses : initAppResponse(r)
    \/ \E r \in Responses : discoverResponse(r)

SpecStartup == InitSession /\ [][NextStartup]_vars

NextSession ==
    \/ NextStartup
    \/ handleLogin
    \/ \E r \in Responses : loginResponse(r)
    \/ loginTimer
    \/ \E r \in Responses : mainAppResponse(r)
    \/ handleLogout
    \/ \E r \in Responses : logoutResponse(r)

SpecSession == InitSession /\ [][NextSession]_vars

(***************************************************************************)
(* The sign-up form.                                                       *)
(***************************************************************************)
MinAge == 18
MinPasswordLength == 8

Digits == <<"0", "1", "2", "3", "4", "5", "6", "7", "8", "9">>

IsDigit(c) == \E i \in 1..Len(Digits) : Digits[i] = c

DigitValue(c) == (CHOOSE i \in 1..Len(Digits) : Digits[i] = c) - 1

\* The characters [A-Z] and [a-z] match, as far as the form values use them.
IsUpper(c) == c \in {"A", "P", "N"}

IsLower(c) == c \in {"a", "b", "n", "s", "w", "x"}

\* The longest prefix of s made of digits.
RECURSIVE DigitsPrefix(_)
DigitsPrefix(s) ==
    IF s # <<>> /\ IsDigit(Head(s)) THEN <<Head(s)>> \o DigitsPrefix(Tail(s)) ELSE <<>>

\* The value of a string of decimal digits.
RECURSIVE DecimalValue(_)
DecimalValue(d) ==
    IF d = <<>> THEN 0
    ELSE 10 * DecimalValue(SubSeq(d, 1, Len(d) - 1)) + DigitValue(d[Len(d)])

RECURSIVE TrimStart(_)
TrimStart(s) == IF s # <<>> /\ Head(s) = " " THEN TrimStart(Tail(s)) ELSE s

\* parseInt(s, 10): leading white space is skipped, a sign is read, then as
\* many digits as there are; NaN when there is no digit.
parseInt(s) ==
    LET t == TrimStart(s)
        signed == t # <<>> /\ Head(t) \in {"-", "+"}
        d == DigitsPrefix(IF signed THEN Tail(t) ELSE t)
    IN IF d = <<>> THEN NaN
       ELSE IF signed /\ Head(t) = "-" THEN Num(0 - DecimalValue(d))
       ELSE Num(DecimalValue(d))

\* regexp.test(s) for a one-character class.
Test(Class(_), s) == \E i \in 1..Len(s) : Class(s[i])

\* An age limit one year lower.
AgeTooLow_Seventeen(age) == age.v < MinAge - 1

\* age < 18
AgeTooLow(age) == age.v < MinAge

\* The validation of handleSignup: the error it shows, "none" when the form
\* passes.
SignupValidation ==
    LET name == Trim(signupName)
        email == ToLowerCase(Trim(signupEmail))
        age == parseInt(signupAge)
    IN IF name = <<>> \/ email = <<>> \/ signupPassword = <<>> \/ signupAge = <<>>
          \/ signupGender = <<>> \/ age.nan
       THEN "Please fill in all fields"
       ELSE IF AgeTooLow(age)
       THEN "You must be at least 18 years old to register"
       ELSE IF Len(signupPassword) < MinPasswordLength
       THEN "Password must be at least 8 characters long"
       ELSE IF ~Test(IsUpper, signupPassword) \/ ~Test(IsLower, signupPassword)
               \/ ~Test(IsDigit, signupPassword)
       THEN "Password must include uppercase, lowercase, and a number."
       ELSE "none"

\* handleSignup up to the await of register(), or to the return of a
\* failed validation. The button is disabled while the request is pending.
handleSignup ==
    /\ pcSignup = "idle"
    /\ IF SignupValidation # "none"
       THEN /\ signupError' = SignupValidation
            /\ finished' = "handleSignup"
            /\ UNCHANGED pcSignup
       ELSE /\ pcSignup' = "await"
            /\ finished' = "none"
            /\ UNCHANGED signupError
    /\ UNCHANGED <<currentUser, lsUser, lsToken, lsUserId, token, currentUserId,
                   authActive, mainActive, pcCheck, ckSaved, pcInit, pcLogin, pcMain,
                   pcLogout, pcDiscover, respCheck, respInit, respLogout, respDiscover>>
    /\ UNCHANGED <<signupName, signupEmail, signupPassword, signupAge, signupGender>>
    /\ UNCHANGED <<aiVars, storeVars, wsVars, swipeVars, photoVars, onbVars>>

\* What the upload of the profile picture ends in: none selected or one too
\* large, or the response to uploadPhoto.
PhotoUploads == {"none"} \cup Responses

\* handleSignup after register(): BackendAPI.register stores the token and
\* the user id, handleSignup sets currentUser and uploads the picture (a
\* 401 to the upload removes the stored token and user id), shows the
\* success message and starts the timer for showMainApp.
signupResponse(r, photo) ==
    /\ pcSignup = "await"
    /\ finished' = "handleSignup"
    /\ IF r = "ok"
       THEN /\ token' = TRUE
            /\ currentUserId' = TRUE
            /\ lsToken' = (photo # "unauthorized")
            /\ lsUserId' = (photo # "unauthorized")
            /\ currentUser' = "user"
            /\ lsUser' = "user"
            /\ pcSignup' = "timer"
            /\ signupError' = "none"
       ELSE /\ pcSignup' = "idle"
            /\ photo = "none"
            /\ signupError' = "Registration failed"
            /\ UNCHANGED <<token, currentUserId, lsToken, lsUserId, currentUser, lsUser>>
    /\ UNCHANGED <<authActive, mainActive, pcCheck, ckSaved, pcInit, pcLogin, pcMain,
                   pcLogout, pcDiscover, respCheck, respInit, respLogout, respDiscover>>
    /\ UNCHANGED <<signupName, signupEmail, signupPassword, signupAge, signupGender>>
    /\ UNCHANGED <<aiVars, storeVars, wsVars, swipeVars, photoVars, onbVars>>

\* The timer of handleSignup fires.
signupTimer ==
    /\ pcSignup = "timer"
    /\ pcSignup' = "idle"
    /\ StartShowMainApp
    /\ UNCHANGED <<token, currentUserId, pcCheck, ckSaved, pcInit, pcLogin, pcLogout,
                   respCheck, respInit, respLogout, respDiscover>>
    /\ UNCHANGED <<signupName, signupEmail, signupPassword, signupAge, signupGender,
                   signupError>>
    /\ UNCHANGED <<aiVars, storeVars, wsVars, swipeVars, photoVars, onbVars>>

\* The values typed into the form.
Names == {<<>>, <<" ">>, <<"A", "n", "n">>}

Emails == {<<>>, <<" ", " ">>, <<"a", "@", "b">>, <<" ", "N", "@", "b">>}

Passwords ==
    {<<>>,
     <<"P", "a", "s", "s", "w", "1">>,
     <<"P", "a", "s", "s", "w", "x", "1">>,
     <<"P", "a", "s", "s", "w", "x", "x", "1">>,
     <<"p", "a", "s", "s", "w", "x", "x", "1">>,
     <<"P", "A", "S", "S", "W", "X", "X", "1">>,
     <<"P", "a", "s", "s", "w", "x", "x", "x">>,
     <<"1", "2", "3", "4", "5", "6", "7", "8">>,
     <<" ", " ", " ", " ", " ", " ", " ", " ", " ">>,
     <<"P", "a", "s", "s", "w", "x", "x", "!", "1", "2">>}

Ages ==
    {<<>>, <<" ">>, <<"a", "b">>, <<"-", "2", "0">>, <<"0">>, <<"1", "7">>,
     <<"1", "7", ".", "9">>, <<"1", "8">>, <<"1", "8", ".", "5">>, <<"4", "0">>,
     <<"1", "2", "0">>}

Genders == {<<>>, <<"F">>}

\* The auth screen of a page with no stored session, the form filled in.
InitSignup ==
    /\ IdleAI
    /\ IdleStore
    /\ IdleRest
    /\ IdleSession
    /\ signupName \in Names
    /\ signupEmail \in Emails
    /\ signupPassword \in Passwords
    /\ signupAge \in Ages
    /\ signupGender \in Genders
    /\ pcSignup = "idle"
    /\ signupError = "none"
    /\ onboardingStep = 0
    /\ selectedInterests = <<>>
    /\ customInterests = <<>>
    /\ pills = <<>>
    /\ modalOpen = FALSE
    /\ onboardingFiles = <<>>
    /\ pcOnboard = "idle"
    /\ photoIdx = 0
    /\ obCalls = {}
    /\ obSent = <<>>
    /\ statusMsg = "none"

NextSignup ==
    \/ handleSignup
    \/ \E r \in Responses, photo \in PhotoUploads : signupResponse(r, photo)
    \/ signupTimer
    \/ \E r \in Responses : mainAppResponse(r)
    \/ \E r \in Responses : discoverResponse(r)

SpecSignup == InitSignup /\ [][NextSignup]_vars

(***************************************************************************)
(* The onboarding wizard.                                                  *)
(***************************************************************************)
Str_Travel == <<"T", "r", "a", "v", "e", "l">>
Str_Food == <<"F", "o", "o", "d">>
Str_Surf == <<"S", "u", "r", "f">>

\* The pills getInterestsStep renders (two of the commonInterests).
PresetInterests == <<Str_Travel, Str_Food>>

\* What the user types into #customInterest before pressing Enter.
CustomTexts == {<<" ">>, Str_Travel, Str_Surf, <<" ">> \o Str_Surf \o <<" ">>}

InterestsStep == 3
LastStep == 4
MinInterests == 3
MaxPhotos == 6
MaxPhotoBytes == 5242880

Range(f) == {f[i] : i \in DOMAIN f}

\* arr.filter(i => i !== x)
Without(arr, x) == SelectSeq(arr, LAMBDA i : i # x)

Pill(interest, selected, custom) ==
    [interest |-> interest, selected |-> selected, custom |-> custom]

\* The pills of a freshly rendered interests step: the preset ones, and the
\* restore of the selected class from selectedInterests. The restore of the
\* custom ones goes through addCustomInterest(interest, true), which returns
\* at once because the interest is in customInterests.
RenderedPills ==
    [i \in 1..Len(PresetInterests) |->
        Pill(PresetInterests[i], PresetInterests[i] \in Range(selectedInterests), FALSE)]

\* showOnboardingStep
showOnboardingStep(step) ==
    /\ onboardingStep' = step
    /\ pills' = IF step = InterestsStep THEN RenderedPills ELSE <<>>

onbRequestVars == <<onboardingFiles, pcOnboard, photoIdx, obCalls, obSent, statusMsg>>

nextOnboardingStep ==
    /\ modalOpen
    /\ onboardingStep < LastStep
    /\ showOnboardingStep(onboardingStep + 1)
    /\ finished' = "none"
    /\ UNCHANGED <<selectedInterests, customInterests, modalOpen>>
    /\ UNCHANGED onbRequestVars
    /\ UNCHANGED <<currentUser, lsUser, lsToken, lsUserId, token, currentUserId,
                   authActive, mainActive, pcDiscover, respCheck, respInit, respLogout, respDiscover>>
    /\ UNCHANGED <<sessAwaitVars, aiVars, storeVars, wsVars, swipeVars, photoVars, signupVars>>

previousOnboardingStep ==
    /\ modalOpen
    /\ onboardingStep > 0
    /\ showOnboardingStep(onboardingStep - 1)
    /\ finished' = "none"
    /\ UNCHANGED <<selectedInterests, customInterests, modalOpen>>
    /\ UNCHANGED onbRequestVars
    /\ UNCHANGED <<currentUser, lsUser, lsToken, lsUserId, token, currentUserId,
                   authActive, mainActive, pcDiscover, respCheck, respInit, respLogout, respDiscover>>
    /\ UNCHANGED <<sessAwaitVars, aiVars, storeVars, wsVars, swipeVars, photoVars, signupVars>>

\* The update of selectedInterests in toggleInterest, given the class the
\* button has after the toggle.
Toggled(arr, interest, selected) ==
    IF selected
    THEN IF interest \in Range(arr) THEN arr ELSE Append(arr, interest)
    ELSE Without(arr, interest)

\* A click on pill i.
toggleInterest(i) ==
    /\ modalOpen
    /\ i \in DOMAIN pills
    /\ pills' = [pills EXCEPT ![i].selected = ~pills[i].selected]
    /\ selectedInterests' =
          Toggled(selectedInterests, pills[i].interest, ~pills[i].selected)
    /\ finished' = "none"
    /\ UNCHANGED <<onboardingStep, customInterests, modalOpen>>
    /\ UNCHANGED onbRequestVars
    /\ UNCHANGED <<currentUser, lsUser, lsToken, lsUserId, token, currentUserId,
                   authActive, mainActive, pcDiscover, respCheck, respInit, respLogout, respDiscover>>
    /\ UNCHANGED <<sessAwaitVars, aiVars, storeVars, wsVars, swipeVars, photoVars, signupVars>>

\* Enter in #customInterest: the keypress handler trims the text and calls
\* addCustomInterest when something is left.
addCustomInterest(interestText) ==
    /\ modalOpen
    /\ onboardingStep = InterestsStep
    /\ LET trimmedInterest == Trim(interestText)
       IN IF trimmedInterest = <<>>
             \/ trimmedInterest \in Range(selectedInterests)
             \/ trimmedInterest \in Range(customInterests)
          THEN UNCHANGED <<customInterests, pills>>
          ELSE /\ customInterests' = Append(customInterests, trimmedInterest)
               /\ pills' = Append(pills, Pill(trimmedInterest, TRUE, TRUE))
    /\ finished' = "none"
    /\ UNCHANGED <<onboardingStep, selectedInterests, modalOpen>>
    /\ UNCHANGED onbRequestVars
    /\ UNCHANGED <<currentUser, lsUser, lsToken, lsUserId, token, currentUserId,
                   authActive, mainActive, pcDiscover, respCheck, respInit, respLogout, respDiscover>>
    /\ UNCHANGED <<sessAwaitVars, aiVars, storeVars, wsVars, swipeVars, photoVars, signupVars>>

\* A click on the x of custom pill i: removeCustomInterest runs, then the
\* click reaches the onclick of the pill itself, which toggles the removed
\* button.
removeCustomInterest(i) ==
    /\ modalOpen
    /\ i \in DOMAIN pills
    /\ pills[i].custom
    /\ customInterests' = Without(customInterests, pills[i].interest)
    /\ selectedInterests' =
          Toggled(Without(selectedInterests, pills[i].interest), pills[i].interest,
                  ~pills[i].selected)
    /\ pills' = SubSeq(pills, 1, i - 1) \o SubSeq(pills, i + 1, Len(pills))
    /\ finished' = "none"
    /\ UNCHANGED <<onboardingStep, modalOpen>>
    /\ UNCHANGED onbRequestVars
    /\ UNCHANGED <<currentUser, lsUser, lsToken, lsUserId, token, currentUserId,
                   authActive, mainActive, pcDiscover, respCheck, respInit, respLogout, respDiscover>>
    /\ UNCHANGED <<sessAwaitVars, aiVars, storeVars, wsVars, swipeVars, photoVars, signupVars>>

\* getSelectedInterests
getSelectedInterests == selectedInterests \o customInterests

\* A loop that goes over every selected file.
CollectPhotos_NoCap(files) ==
    SelectSeq([i \in 1..Len(files) |-> i], LAMBDA i : ~(files[i] > MaxPhotoBytes))

\* The loop of handleOnboardingPhotos and of handlePhotoUploads: the
\* positions of the files it pushes, in order.
CollectPhotos(files) ==
    LET maxPhotos == IF Len(files) < MaxPhotos THEN Len(files) ELSE MaxPhotos
    IN SelectSeq([i \in 1..maxPhotos |-> i], LAMBDA i : ~(files[i] > MaxPhotoBytes))

\* handleOnboardingPhotos: which of the chosen files it returns.
handleOnboardingPhotos == CollectPhotos(onboardingFiles)

\* handlePhotoUploads (edit profile): which of the chosen files it returns.
handlePhotoUploads == CollectPhotos(profilePhotos)

\* A guard that asks for two entries.
TooFewInterests_Two(interests) == Len(interests) < MinInterests - 1

\* interests.length < 3
TooFewInterests(interests) == Len(interests) < MinInterests

\* completeOnboarding (the button of the last step) up to the await of
\* updateProfile, or to the return of the interests check. One run at a
\* time.
completeOnboarding ==
    /\ modalOpen
    /\ onboardingStep = LastStep
    /\ pcOnboard = "idle"
    /\ IF TooFewInterests(getSelectedInterests)
       THEN /\ statusMsg' = "Please select at least 3 interests"
            /\ obCalls' = {}
            /\ obSent' = <<>>
            /\ finished' = "completeOnboarding"
            /\ UNCHANGED pcOnboard
       ELSE /\ pcOnboard' = "updateProfile"
            /\ obCalls' = {"updateProfile"}
            /\ obSent' = getSelectedInterests
            /\ finished' = "none"
            /\ UNCHANGED statusMsg
    /\ UNCHANGED <<onboardingStep, selectedInterests, customInterests, pills, modalOpen,
                   onboardingFiles, photoIdx>>
    /\ UNCHANGED <<currentUser, lsUser, lsToken, lsUserId, token, currentUserId,
                   authActive, mainActive, pcDiscover, respCheck, respInit, respLogout, respDiscover>>
    /\ UNCHANGED <<sessAwaitVars, aiVars, storeVars, wsVars, swipeVars, photoVars, signupVars>>

\* The request completeOnboarding sends next.
SendOnboarding(call) ==
    /\ pcOnboard' = call
    /\ obCalls' = obCalls \cup {call}
    /\ finished' = "none"
    /\ UNCHANGED <<statusMsg, modalOpen, onboardingStep, pills, currentUser, lsUser,
                   pcDiscover>>

\* The catch block of completeOnboarding.
OnboardingFailed ==
    /\ pcOnboard' = "idle"
    /\ statusMsg' = "Error saving profile"
    /\ finished' = "completeOnboarding"
    /\ UNCHANGED <<obCalls, photoIdx, modalOpen, onboardingStep, pills, currentUser,
                   lsUser, pcDiscover>>

\* The end of completeOnboarding: the profile is stored, the modal removed
\* and the discover screen shown.
OnboardingDone ==
    /\ pcOnboard' = "idle"
    /\ finished' = "completeOnboarding"
    /\ currentUser' = "userP"
    /\ lsUser' = "userP"
    /\ modalOpen' = FALSE
    /\ pills' = <<>>
    /\ ShowDiscover
    /\ UNCHANGED <<obCalls, photoIdx, statusMsg, onboardingStep>>

\* completeOnboarding after the response to the request it awaits. A failed
\* photo upload is logged and the loop goes on.
onboardingResponse(r) ==
    /\ pcOnboard # "idle"
    /\ IF r = "unauthorized"
       THEN lsToken' = FALSE /\ lsUserId' = FALSE
       ELSE UNCHANGED <<lsToken, lsUserId>>
    /\ CASE pcOnboard = "updateProfile" ->
              IF r # "ok" THEN OnboardingFailed
              ELSE IF handleOnboardingPhotos # <<>>
              THEN photoIdx' = 0 /\ SendOnboarding("uploadPhoto")
              ELSE UNCHANGED photoIdx /\ SendOnboarding("updatePreferences")
         [] pcOnboard = "uploadPhoto" ->
              IF photoIdx + 1 < Len(handleOnboardingPhotos)
              THEN photoIdx' = photoIdx + 1 /\ SendOnboarding("uploadPhoto")
              ELSE UNCHANGED photoIdx /\ SendOnboarding("updatePreferences")
         [] pcOnboard = "updatePreferences" ->
              IF r # "ok" THEN OnboardingFailed
              ELSE UNCHANGED photoIdx /\ SendOnboarding("completeOnboarding")
         [] pcOnboard = "completeOnboarding" ->
              IF r # "ok" THEN OnboardingFailed
              ELSE UNCHANGED photoIdx /\ SendOnboarding("getMyProfile")
         [] pcOnboard = "getMyProfile" ->
              IF r # "ok" \/ currentUser = "null" THEN OnboardingFailed
              ELSE OnboardingDone
    /\ UNCHANGED <<selectedInterests, customInterests, onboardingFiles, obSent>>
    /\ UNCHANGED <<token, currentUserId, authActive, mainActive, respCheck, respInit,
                   respLogout, respDiscover>>
    /\ UNCHANGED <<sessAwaitVars, aiVars, storeVars, wsVars, swipeVars, photoVars, signupVars>>

\* The files the user may have chosen on the photo step.
FileLists == {<<>>, <<1>>, <<MaxPhotoBytes + 1, 1>>}

\* A logged-in user whose profile has not completed onboarding, after
\* showMainApp called startOnboarding: the modal shows step 0.
InitOnboarding ==
    /\ IdleAI
    /\ IdleStore
    /\ IdleRest
    /\ currentUser = "userP"
    /\ lsUser = "userP"
    /\ lsToken = TRUE
    /\ lsUserId = TRUE
    /\ token = TRUE
    /\ currentUserId = TRUE
    /\ authActive = FALSE
    /\ mainActive = TRUE
    /\ pcCheck = "done"
    /\ ckSaved = "null"
    /\ pcInit = "done"
    /\ pcLogin = "idle"
    /\ pcMain = "idle"
    /\ pcLogout = "idle"
    /\ pcDiscover = FALSE
    /\ finished = "showMainApp"
    /\ respCheck = "none"
    /\ respInit = "none"
    /\ respLogout = "none"
    /\ respDiscover = {}
    /\ signupName = <<>>
    /\ signupEmail = <<>>
    /\ signupPassword = <<>>
    /\ signupAge = <<>>
    /\ signupGender = <<>>
    /\ pcSignup = "idle"
    /\ signupError = "none"
    /\ onboardingStep = 0
    /\ selectedInterests = <<>>
    /\ customInterests = <<>>
    /\ pills = <<>>
    /\ modalOpen = TRUE
    /\ onboardingFiles \in FileLists
    /\ pcOnboard = "idle"
    /\ photoIdx = 0
    /\ obCalls = {}
    /\ obSent = <<>>
    /\ statusMsg = "none"

NextOnboarding ==
    \/ nextOnboardingStep
    \/ previousOnboardingStep
    \/ \E i \in DOMAIN pills : toggleInterest(i)
    \/ \E t \in CustomTexts : addCustomInterest(t)
    \/ \E i \in DOMAIN pills : removeCustomInterest(i)
    \/ completeOnboarding
    \/ \E r \in Responses : onboardingResponse(r)

SpecOnboarding == InitOnboarding /\ [][NextOnboarding]_vars

(***************************************************************************)
(* The WebSocket of the chat.                                              *)
(***************************************************************************)
MaxSockets == 2

sessStateVars ==
    <<currentUser, lsUser, lsToken, lsUserId, token, currentUserId, authActive,
      mainActive, pcDiscover, finished, respCheck, respInit, respLogout,
      respDiscover>>

\* new WebSocket(wsUrl), stored in this.ws; the socket before it, if any, is
\* neither closed nor forgotten by its handlers.
OpenSocket ==
    /\ sockets' = Append(sockets, "open")
    /\ ws' = Len(sockets) + 1

\* A call of connectWebSocket by the chat screen; it throws without a token.
connectWebSocket ==
    /\ token
    /\ Len(sockets) < MaxSockets
    /\ OpenSocket
    /\ UNCHANGED <<wsTimers, logoutWs>>
    /\ UNCHANGED <<sessStateVars, sessAwaitVars>>
    /\ UNCHANGED <<aiVars, storeVars, swipeVars, photoVars, uiVars>>

\* The close event of socket i (closed by close(), by the server or by the
\* network): onclose starts the reconnect timer.
onclose(i) ==
    /\ i \in DOMAIN sockets
    /\ sockets[i] \in {"open", "closing"}
    /\ sockets' = [sockets EXCEPT ![i] = "closed"]
    /\ wsTimers' = wsTimers \cup {i}
    /\ UNCHANGED <<ws, logoutWs>>
    /\ UNCHANGED <<sessStateVars, sessAwaitVars>>
    /\ UNCHANGED <<aiVars, storeVars, swipeVars, photoVars, uiVars>>

\* A timer that reconnects whatever the session is.
RetryConnects_Always == TRUE

\* if (this.isLoggedIn())
RetryConnects == isLoggedIn

\* The reconnect timer of socket i fires.
reconnectTimer(i) ==
    /\ i \in wsTimers
    /\ wsTimers' = wsTimers \ {i}
    /\ IF RetryConnects
       THEN /\ Len(sockets) < MaxSockets
            /\ OpenSocket
       ELSE UNCHANGED <<ws, sockets>>
    /\ UNCHANGED logoutWs
    /\ UNCHANGED <<sessStateVars, sessAwaitVars>>
    /\ UNCHANGED <<aiVars, storeVars, swipeVars, photoVars, uiVars>>

\* A logged-in user on the main screen, start-up finished, no socket yet.
InitSocket ==
    /\ IdleAI
    /\ IdleStore
    /\ IdleRest
    /\ IdleUI
    /\ currentUser = "userP"
    /\ lsUser = "userP"
    /\ lsToken = TRUE
    /\ lsUserId = TRUE
    /\ token = TRUE
    /\ currentUserId = TRUE
    /\ authActive = FALSE
    /\ mainActive = TRUE
    /\ pcCheck = "done"
    /\ ckSaved = "null"
    /\ pcInit = "done"
    /\ pcLogin = "idle"
    /\ pcMain = "idle"
    /\ pcLogout = "idle"
    /\ pcDiscover = FALSE
    /\ finished = "none"
    /\ respCheck = "none"
    /\ respInit = "none"
    /\ respLogout = "none"
    /\ respDiscover = {}

NextSocket ==
    \/ connectWebSocket
    \/ \E i \in DOMAIN sockets : onclose(i)
    \/ \E i \in wsTimers : reconnectTimer(i)
    \/ handleLogout
    \/ \E r \in Responses : logoutResponse(r)
    \/ handleLogin
    \/ \E r \in Responses : loginResponse(r)
    \/ loginTimer
    \/ \E r \in Responses : mainAppResponse(r)
    \/ \E r \in Responses : discoverResponse(r)

SpecSocket == InitSocket /\ [][NextSocket]_vars

(***************************************************************************)
(* The photo selection of the onboarding wizard and of the profile editor. *)
(***************************************************************************)
MaxFiles == 7

\* File sizes around the limit.
FileSizes == {1, MaxPhotoBytes, MaxPhotoBytes + 1}

\* Every selection of at most MaxFiles files.
Selections == UNION {[1..n -> FileSizes] : n \in 0..MaxFiles}

\* A finished call of op on the selection files: the photos it returned, or
\* the rejection when fileToBase64 failed on one of the files it read.
PhotoCall(op, files, photos, readFails) ==
    [op |-> op, files |-> files,
     photos |-> IF readFails THEN <<>> ELSE photos, rejected |-> readFails]

callHandleOnboardingPhotos ==
    /\ \E readFails \in {FALSE, handleOnboardingPhotos # <<>>} :
          photoCall' = PhotoCall("handleOnboardingPhotos", onboardingFiles,
                                 handleOnboardingPhotos, readFails)
    /\ UNCHANGED <<profilePhotos, aiVars, storeVars, sessVars, uiVars, wsVars, swipeVars>>

callHandlePhotoUploads ==
    /\ \E readFails \in {FALSE, handlePhotoUploads # <<>>} :
          photoCall' = PhotoCall("handlePhotoUploads", profilePhotos,
                                 handlePhotoUploads, readFails)
    /\ UNCHANGED <<profilePhotos, aiVars, storeVars, sessVars, uiVars, wsVars, swipeVars>>

\* A selection made in one of the two file inputs.
InitPhotos ==
    /\ IdleAI
    /\ IdleStore
    /\ IdleSession
    /\ ws = 0
    /\ sockets = <<>>
    /\ wsTimers = {}
    /\ logoutWs = 0
    /\ currentProfileIndex = 0
    /\ interactions = <<>>
    /\ swipeTasks = <<>>
    /\ photoCall = NoPhotoCall
    /\ signupName = <<>>
    /\ signupEmail = <<>>
    /\ signupPassword = <<>>
    /\ signupAge = <<>>
    /\ signupGender = <<>>
    /\ pcSignup = "idle"
    /\ signupError = "none"
    /\ onboardingStep = 0
    /\ selectedInterests = <<>>
    /\ customInterests = <<>>
    /\ pills = <<>>
    /\ modalOpen = FALSE
    /\ pcOnboard = "idle"
    /\ photoIdx = 0
    /\ obCalls = {}
    /\ obSent = <<>>
    /\ statusMsg = "none"
    /\ \E files \in Selections :
          \/ onboardingFiles = files /\ profilePhotos = <<>>
          \/ onboardingFiles = <<>> /\ profilePhotos = files

NextPhotos ==
    \/ callHandleOnboardingPhotos
    \/ callHandlePhotoUploads

SpecPhotos == InitPhotos /\ [][NextPhotos]_vars

(***************************************************************************)
(* Discovery: swipes, the action buttons and super like.                   *)
(***************************************************************************)
BatchSize == 3
MaxTasks == 2

SwipeOutcomes == {"ok", "error"}

\* Where the interaction goes: backendAPI.createInteraction when
\* isLoggedIn(), otherwise datingDB.addInteraction.
Via == IF isLoggedIn THEN "backend" ELSE "local"

\* createInteraction resolves or rejects; addInteraction always resolves.
Outcomes(via) == IF via = "local" THEN {"ok"} ELSE SwipeOutcomes

\* discoveryProfiles[index]: whether the batch has a profile there.
HasProfile(index) == index < BatchSize

RemoveAt(seq, t) == [k \in 1..(Len(seq) - 1) |-> IF k < t THEN seq[k] ELSE seq[k + 1]]

\* createInteraction / addInteraction of type action recorded for the
\* profile at index.
Recorded(index, action) == [interactions EXCEPT ![index + 1] = Append(@, action)]

\* swipeLeft, swipeRight and handleSwipeEnd past the threshold: up to the
\* await of animateSwipe.
StartSwipe(action) ==
    /\ currentUser # "null"
    /\ Len(swipeTasks) < MaxTasks
    /\ swipeTasks' = Append(swipeTasks,
                            [op |-> "swipe", pc |-> "animate", action |-> action,
                             profile |-> 0, via |-> "none"])
    /\ UNCHANGED <<currentProfileIndex, interactions>>
    /\ UNCHANGED <<aiVars, storeVars, sessVars, uiVars, wsVars, photoVars>>

swipeLeft == StartSwipe("pass")

swipeRight == StartSwipe("like")

\* The animation's timer fires and handleSwipeAction runs up to its await:
\* it reads the profile at currentProfileIndex and sends the interaction.
handleSwipeAction(t) ==
    /\ t \in DOMAIN swipeTasks
    /\ swipeTasks[t].pc = "animate"
    /\ IF HasProfile(currentProfileIndex) /\ currentUser # "null"
       THEN swipeTasks' = [swipeTasks EXCEPT ![t].pc = "await",
                                             ![t].profile = currentProfileIndex,
                                             ![t].via = Via]
       ELSE swipeTasks' = RemoveAt(swipeTasks, t)
    /\ UNCHANGED <<currentProfileIndex, interactions>>
    /\ UNCHANGED <<aiVars, storeVars, sessVars, uiVars, wsVars, photoVars>>

\* handleSwipeAction after the await: on success it moves to the next
\* profile, on failure its catch leaves the index alone.
swipeResponse(t, r) ==
    /\ t \in DOMAIN swipeTasks
    /\ swipeTasks[t].op = "swipe"
    /\ swipeTasks[t].pc = "await"
    /\ r \in Outcomes(swipeTasks[t].via)
    /\ IF r = "ok"
       THEN /\ interactions' = Recorded(swipeTasks[t].profile, swipeTasks[t].action)
            /\ currentProfileIndex' = currentProfileIndex + 1
       ELSE UNCHANGED <<currentProfileIndex, interactions>>
    /\ swipeTasks' = RemoveAt(swipeTasks, t)
    /\ UNCHANGED <<aiVars, storeVars, sessVars, uiVars, wsVars, photoVars>>

\* superLike up to its await.
superLike ==
    /\ currentUser # "null"
    /\ HasProfile(currentProfileIndex)
    /\ Len(swipeTasks) < MaxTasks
    /\ swipeTasks' = Append(swipeTasks,
                            [op |-> "superLike", pc |-> "await", action |-> "super_like",
                             profile |-> currentProfileIndex, via |-> Via])
    /\ UNCHANGED <<currentProfileIndex, interactions>>
    /\ UNCHANGED <<aiVars, storeVars, sessVars, uiVars, wsVars, photoVars>>

\* superLike after the await: on success it starts the 500 ms timer.
superLikeResponse(t, r) ==
    /\ t \in DOMAIN swipeTasks
    /\ swipeTasks[t].op = "superLike"
    /\ swipeTasks[t].pc = "await"
    /\ r \in Outcomes(swipeTasks[t].via)
    /\ IF r = "ok"
       THEN /\ interactions' = Recorded(swipeTasks[t].profile, swipeTasks[t].action)
            /\ swipeTasks' = [swipeTasks EXCEPT ![t].pc = "timer"]
       ELSE /\ swipeTasks' = RemoveAt(swipeTasks, t)
            /\ UNCHANGED interactions
    /\ UNCHANGED currentProfileIndex
    /\ UNCHANGED <<aiVars, storeVars, sessVars, uiVars, wsVars, photoVars>>

\* The timer of superLike moves to the next profile.
superLikeTimer(t) ==
    /\ t \in DOMAIN swipeTasks
    /\ swipeTasks[t].pc = "timer"
    /\ currentProfileIndex' = currentProfileIndex + 1
    /\ swipeTasks' = RemoveAt(swipeTasks, t)
    /\ UNCHANGED interactions
    /\ UNCHANGED <<aiVars, storeVars, sessVars, uiVars, wsVars, photoVars>>

\* A user on the discovery screen with a freshly loaded batch, logged in to
\* the backend or not.
InitSwipe ==
    /\ IdleAI
    /\ IdleStore
    /\ IdleUI
    /\ ws = 0
    /\ sockets = <<>>
    /\ wsTimers = {}
    /\ logoutWs = 0
    /\ photoCall = NoPhotoCall
    /\ profilePhotos = <<>>
    /\ currentProfileIndex = 0
    /\ interactions = [k \in 1..BatchSize |-> <<>>]
    /\ swipeTasks = <<>>
    /\ currentUser = "userP"
    /\ \E backend \in BOOLEAN :
          /\ lsUser = IF backend THEN "userP" ELSE "null"
          /\ lsToken = backend
          /\ lsUserId = backend
          /\ token = backend
          /\ currentUserId = backend
    /\ authActive = FALSE
    /\ mainActive = TRUE
    /\ pcCheck = "done"
    /\ ckSaved = "null"
    /\ pcInit = "done"
    /\ pcLogin = "idle"
    /\ pcMain = "idle"
    /\ pcLogout = "idle"
    /\ pcDiscover = FALSE
    /\ finished = "none"
    /\ respCheck = "none"
    /\ respInit = "none"
    /\ respLogout = "none"
    /\ respDiscover = {}

NextSwipe ==
    \/ swipeLeft
    \/ swipeRight
    \/ \E t \in DOMAIN swipeTasks : handleSwipeAction(t)
    \/ \E t \in DOMAIN swipeTasks, r \in SwipeOutcomes : swipeResponse(t, r)
    \/ superLike
    \/ \E t \in DOMAIN swipeTasks, r \in SwipeOutcomes : superLikeResponse(t, r)
    \/ \E t \in DOMAIN swipeTasks : superLikeTimer(t)

SpecSwipe == InitSwipe /\ [][NextSwipe]_vars

(***************************************************************************)
(* Claims about the matching engine.                                       *)
(***************************************************************************)
InRange(x) == ~x.nan /\ 0 <= x.v /\ x.v <= 100

KeyConfigured(mem, ls) == mem \notin {"null", ""} \/ ls \notin {"null", ""}

\* C1: whatever the profiles and whatever the LLM call ends in, the score
\* calculateCompatibility returns is a number from 0 to 100.
C1_ScoreInRange ==
    (aiCall.op = "calculateCompatibility" /\ ~aiCall.rejected) => InRange(aiCall.score)

\* C2: with a key configured, a transport or parse failure of the LLM call
\* makes calculateCompatibility return a result of the heuristic
\* calculateSimpleCompatibility on the same profiles, and it never rejects.
C2_FallbackOnFailure ==
    (aiCall.op = "calculateCompatibility"
        /\ KeyConfigured(aiCall.memBefore, aiCall.lsBefore))
    => /\ ~aiCall.rejected
       /\ aiCall.llm \in LlmFailures =>
            /\ aiCall.source = "simple"
            /\ aiCall.score \in SimpleScores(profile1, profile2)

C2_Witness ==
    /\ aiCall.op = "calculateCompatibility"
    /\ KeyConfigured(aiCall.memBefore, aiCall.lsBefore)
    /\ aiCall.llm = "invalid_json"
    /\ aiCall.source = "simple"
    /\ aiCall.score = Num(100)

\* C9: a call made while no key is configured, in memory or in
\* localStorage, sends no request and returns the local result.
C9_NoKeyNoNetwork ==
    (aiCall.op # "none" /\ ~KeyConfigured(aiCall.memBefore, aiCall.lsBefore))
    => /\ ~aiCall.fetched
       /\ aiCall.llm = "none"
       /\ aiCall.op = "calculateCompatibility" =>
            /\ aiCall.source = "simple"
            /\ aiCall.score \in SimpleScores(profile1, profile2)
       /\ aiCall.op \in ListOps => aiCall.source = "generic"

C9_Witness ==
    /\ aiCall.op = "analyzeUserPatterns"
    /\ aiCall.memBefore = ""
    /\ aiCall.lsBefore = ""
    /\ aiCall.source = "generic"
    /\ ~aiCall.fetched

(***************************************************************************)
(* Claims about the local store.                                           *)
(***************************************************************************)
\* The likes store holds a record of type 'like' from a to b.
HasLike(a, b) ==
    \E i \in 1..Len(likes) :
        likes[i].fromUserId = a /\ likes[i].toUserId = b /\ likes[i].type = "like"

HasMatch(a, b) ==
    \E i \in 1..Len(matches) :
        {matches[i].user1Id, matches[i].user2Id} = {a, b}

\* C3: once a has recorded a like toward b and b toward a, a match record
\* for the pair exists.
C3_MutualLikesFormMatch ==
    \A a, b \in Users :
        (a # b /\ HasLike(a, b) /\ HasLike(b, a)) => HasMatch(a, b)

\* C4: each match record joins two different users who have each recorded
\* a like toward the other.
C4_MatchesAreMutualLikes ==
    \A i \in 1..Len(matches) :
        /\ matches[i].user1Id # matches[i].user2Id
        /\ HasLike(matches[i].user1Id, matches[i].user2Id)
        /\ HasLike(matches[i].user2Id, matches[i].user1Id)

\* C5: checkMutualLike(a, b) is truthy exactly when checkMutualLike(b, a)
\* is, and exactly when the store holds a 'like' from a to b and a 'like'
\* from b to a; records of another type never make it truthy.
C5_MutualLikeSymmetric ==
    /\ \A a, b \in Users :
          /\ checkMutualLike(likes, a, b).has = checkMutualLike(likes, b, a).has
          /\ checkMutualLike(likes, a, b).has = (HasLike(a, b) /\ HasLike(b, a))
    /\ lastQuery.op = "checkMutualLike" =>
          lastQuery.truthy = (HasLike(lastQuery.a, lastQuery.b)
                                /\ HasLike(lastQuery.b, lastQuery.a))

C5_Witness ==
    /\ lastQuery.op = "checkMutualLike"
    /\ lastQuery.a # lastQuery.b
    /\ lastQuery.truthy
    /\ likes[1].type = "like"

(***************************************************************************)
(* Claims about the session.                                               *)
(***************************************************************************)
\* C6: when handleLogout has finished, after a successful or a failed
\* backend logout, currentUser, the token and the user id are null, the
\* three session keys are gone from localStorage, and the auth screen is
\* active instead of the main screen.
C6_LoggedOut ==
    finished = "handleLogout" =>
        /\ currentUser = "null"
        /\ ~token /\ ~currentUserId
        /\ lsUser = "null" /\ ~lsToken /\ ~lsUserId
        /\ authActive /\ ~mainActive

\* A session restored at start-up, then a logout the backend failed.
C6_Witness ==
    /\ finished = "handleLogout"
    /\ respLogout = "error"
    /\ respCheck = "ok"

StartupDone == pcCheck = "done" /\ pcInit = "done"

\* Every response the backend gave during start-up.
StartupResponses == ({respCheck, respInit} \ {"none"}) \cup respDiscover

\* C7: on a page start with a stored user and a stored token, once both
\* start-up handlers have finished: if the backend accepted the token,
\* the main screen is active and currentUser is set; if it rejected the
\* token, the login screen is active, currentUser is null and the stored
\* session keys are removed.
C7_StartupOutcome ==
    (StartupDone /\ respCheck # "none") =>
        /\ StartupResponses = {"ok"} =>
              (mainActive /\ ~authActive /\ currentUser # "null")
        /\ StartupResponses = {"unauthorized"} =>
              /\ authActive /\ ~mainActive
              /\ currentUser = "null"
              /\ lsUser = "null" /\ ~lsToken /\ ~lsUserId

(***************************************************************************)
(* Claims about the sign-up form.                                          *)
(***************************************************************************)
\* A field is filled in when something other than white space is in it.
Filled(field) == \E i \in 1..Len(field) : field[i] # " "

HasUpper(pw) == \E i \in 1..Len(pw) : IsUpper(pw[i])

HasLower(pw) == \E i \in 1..Len(pw) : IsLower(pw[i])

HasDigit(pw) == \E i \in 1..Len(pw) : IsDigit(pw[i])

FormAcceptable ==
    /\ Filled(signupName) /\ Filled(signupEmail) /\ Filled(signupGender)
    /\ Len(signupPassword) >= MinPasswordLength
    /\ HasUpper(signupPassword) /\ HasLower(signupPassword) /\ HasDigit(signupPassword)
    /\ ~parseInt(signupAge).nan /\ parseInt(signupAge).v >= MinAge

\* A step of handleSignup that sends the register request.
RegisterCalled == pcSignup = "idle" /\ pcSignup' = "await"

\* A step of handleSignup that returns without sending it.
SignupRefused == pcSignup = "idle" /\ pcSignup' = "idle" /\ finished' = "handleSignup"

C10_NeedsThreeInterests ==
    (obCalls # {} \/ ~modalOpen) => Cardinality(Range(obSent)) >= MinInterests

(***************************************************************************)
(* Claims about the heuristic's bonuses.                                   *)
(***************************************************************************)
\* calculateSimpleCompatibility has scored the two profiles.
HeuristicApplied == aiCall.op = "calculateCompatibility" /\ aiCall.source = "simple"

\* The interests of a list as a set, compared case-insensitively.
InterestSet(l) == {InterestLower(l[k]) : k \in 1..Len(l)}

HasInterests(p) == p.interests.has /\ Len(p.interests.val) > 0

\* min(20, 5 x the size of the intersection of the two sets).
SetBonus(p1, p2) ==
    IF HasInterests(p1) /\ HasInterests(p2)
    THEN LET n == 5 * Cardinality(InterestSet(p1.interests.val)
                                  \cap InterestSet(p2.interests.val))
         IN IF n <= InterestCap THEN n ELSE InterestCap
    ELSE 0

\* C12: the interest bonus is min(20, 5 x the number of interests the two
\* sets share, case-insensitively), 0 when a list is missing or empty, and
\* neither repeated entries nor the order of the two profiles change it.
C12_InterestBonusOfSets ==
    HeuristicApplied =>
        /\ InterestBonus(profile1, profile2) = SetBonus(profile1, profile2)
        /\ InterestBonus(profile1, profile2) = InterestBonus(profile2, profile1)

\* The two locations, lower-cased, share some piece of text.
SharePart(l1, l2) ==
    LET a == ToLowerCase(l1)
        b == ToLowerCase(l2)
    IN \E i \in 1..Len(a), j \in 1..Len(b) : a[i] = b[j] /\ a[i] \notin {" ", ","}

BothContainNY(p1, p2) ==
    /\ Includes(ToLowerCase(p1.location.val), <<"n", "y">>)
    /\ Includes(ToLowerCase(p2.location.val), <<"n", "y">>)

\* C13: a location bonus is added only when both profiles have a location:
\* +15 when both contain 'ny', otherwise +10 when the parts after the first
\* comma are equal; two locations with no part in common get no bonus.
C13_LocationBonusNeedsCommonPart ==
    LET bonus == LocationBonus(profile1, profile2)
        both == LocTruthy(profile1.location) /\ LocTruthy(profile2.location)
    IN HeuristicApplied =>
         /\ bonus \in {0, 10, 15}
         /\ bonus # 0 => both
         /\ bonus = 15 <=> (both /\ BothContainNY(profile1, profile2))
         /\ bonus # 0 => SharePart(profile1.location.val, profile2.location.val)

(***************************************************************************)
(* Claims about the WebSocket.                                             *)
(***************************************************************************)
\* C11: when a socket was connected at the start of handleLogout, then once
\* handleLogout has finished, after a successful or a failed backend
\* logout, that socket has been closed and backendAPI.ws is null.
C11_LogoutClosesSocket ==
    (finished = "handleLogout" /\ logoutWs # 0) =>
        /\ ws = 0
        /\ sockets[logoutWs] # "open"

\* A step of a reconnect timer.
RetryStep == wsTimers' # wsTimers /\ wsTimers' \subseteq wsTimers

NothingInFlight ==
    /\ pcCheck # "await" /\ pcInit # "await"
    /\ pcLogin = "idle" /\ pcMain = "idle" /\ pcLogout = "idle"
    /\ pcSignup = "idle" /\ pcOnboard = "idle"
    /\ ~pcDiscover

\* C16: whenever no operation is in flight, BackendAPI.token is non-null
\* exactly when localStorage holds auth_token, so isLoggedIn() is not true
\* once the stored token has been removed.
C16_TokenAgreesWithStorage ==
    NothingInFlight =>
        /\ token <=> lsToken
        /\ isLoggedIn => lsToken

(***************************************************************************)
(* Claims about the photo selection.                                       *)
(***************************************************************************)
\* C14: handleOnboardingPhotos and handlePhotoUploads return at most 6
\* photos, each one of the first 6 selected files and none larger than 5 MB.
C14_PhotosCapped ==
    (photoCall.op # "none" /\ ~photoCall.rejected) =>
        /\ Len(photoCall.photos) <= 6
        /\ \A k \in DOMAIN photoCall.photos :
              /\ photoCall.photos[k] \in 1..6
              /\ photoCall.photos[k] \in DOMAIN photoCall.files
              /\ photoCall.files[photoCall.photos[k]] <= 5 * 1024 * 1024

\* More files than the cap were selected, one of the first six too large,
\* and the other five were returned.
C14_Witness ==
    /\ photoCall.op = "handlePhotoUploads"
    /\ ~photoCall.rejected
    /\ Len(photoCall.files) > 6
    /\ \E i \in 1..6 : photoCall.files[i] > MaxPhotoBytes
    /\ Len(photoCall.photos) = 5

(***************************************************************************)
(* Claims about discovery.                                                 *)
(***************************************************************************)
\* C17: within one loaded batch no profile receives more than one
\* interaction, and once no swipe, button press or super like is running,
\* no profile before the current one is left without an interaction.
C17_OneInteractionPerProfile ==
    /\ \A k \in DOMAIN interactions : Len(interactions[k]) <= 1
    /\ swipeTasks = <<>> =>
          \A k \in DOMAIN interactions :
              k <= currentProfileIndex => Len(interactions[k]) >= 1

====
